---- MODULE Spec2Model ----
(***************************************************************************)
(* RWYEngine: the record store (database.py), the graph builder (graph.py), *)
(* the relationship map (graph_viewer.py), the relationship editor dialog   *)
(* (relationship_ui.py) and the main window (main.py).                      *)
(*                                                                          *)
(* Six specifications share the variables:                                  *)
(*   SpecGraph    build_graph and compute_tree_layout as pure functions of  *)
(*                bounded store contents;                                   *)
(*   SpecLayout   compute_tree_layout on every graph of MaxId entries and   *)
(*                up to MaxEdges relationship rows;                         *)
(*   SpecViewer   one GraphViewer session: construction, drags, clicks and  *)
(*                layout switches;                                          *)
(*   SpecApp      the main window and the non-modal relationship editor     *)
(*                working on the record store;                              *)
(*   SpecMap      the main window, the editor and the map's node clicks     *)
(*                calling back into the main window;                        *)
(*   SpecMapView  the map opened from the editor with all its interactions. *)
(***************************************************************************)
EXTENDS Integers, Sequences, FiniteSets, TLC

\* ------------------------------------------------------------------ bounds
\* Entry ids are 1..MaxId; at most MaxRels relationship rows.
MaxId == 3
MaxRels == 2
\* The main window creates at most MaxCreated entries and the relationship
\* editor adds at most MaxAdded relationships.
MaxCreated == 2
MaxAdded == 1
\* The layout inputs hold at most MaxEdges relationship rows.
MaxEdges == 3

\* Python's None, for an id that is absent (ids start at 1).
None == 0

Ids == 1..MaxId

VARIABLES
    entries,         \* rows of table entries, in rowid order
    relationships,   \* rows of table relationships, in rowid order
    G,               \* the nx.DiGraph handed to the viewer
    root_id,         \* GraphViewer.root_id
    current_layout,  \* GraphViewer.current_layout
    positions,       \* GraphViewer.positions: node id -> <<x, y>>
    node_items,      \* GraphViewer.node_items: node id -> NodeItem
    edge_items,      \* GraphViewer.edge_items: list of CurvedEdgeItem
    phase,           \* where the session stands
    last_event,      \* the handler that ran last, with its arguments
    db_seq,          \* sqlite_sequence: the last AUTOINCREMENT id of each table
    main,            \* MainWindow: current_entry_id, loading_entry, list, fields
    rel_dialog       \* MainWindow.rel_dialog: the relationship editor dialog

vars == <<entries, relationships, G, root_id, current_layout, positions,
          node_items, edge_items, phase, last_event, db_seq, main, rel_dialog>>

viewerVars == <<G, root_id, current_layout, positions, node_items, edge_items>>
appVars == <<db_seq, main, rel_dialog>>

\* ------------------------------------------------------------ sequences
Range(s) == {s[i] : i \in DOMAIN s}

RECURSIVE Flatten(_)
Flatten(ss) == IF ss = <<>> THEN <<>> ELSE Head(ss) \o Flatten(Tail(ss))

Max(S) == CHOOSE x \in S : \A y \in S : y <= x

\* ------------------------------------------------------------ graph.py
\* nx.DiGraph(): nodes and edges are kept in insertion order.
EmptyGraph == [nodes |-> <<>>, edges |-> <<>>]

NodeIds(g) == {g.nodes[i].id : i \in DOMAIN g.nodes}

\* G.add_node(id, label=, category=): a new node is appended, an existing
\* one keeps its place and takes the new attributes.
add_node(g, id, label, category) ==
    LET n == [id |-> id, label |-> label, category |-> category]
    IN IF id \in NodeIds(g)
       THEN [g EXCEPT !.nodes = [i \in DOMAIN g.nodes |->
                IF g.nodes[i].id = id THEN n ELSE g.nodes[i]]]
       ELSE [g EXCEPT !.nodes = Append(g.nodes, n)]

\* G.add_edge(a, b, label=): a new edge is appended, an existing (a, b)
\* keeps its place and takes the new label.
add_edge(g, a, b, label) ==
    LET e == [src |-> a, dst |-> b, label |-> label]
    IN IF \E i \in DOMAIN g.edges : g.edges[i].src = a /\ g.edges[i].dst = b
       THEN [g EXCEPT !.edges = [i \in DOMAIN g.edges |->
                IF g.edges[i].src = a /\ g.edges[i].dst = b THEN e ELSE g.edges[i]]]
       ELSE [g EXCEPT !.edges = Append(g.edges, e)]

\* e["title"] or f"ID {entry_id}"
node_title(e) == IF e.title = "" THEN "ID " \o ToString(e.id) ELSE e.title

\* e["category"] or "default"
node_category(e) == IF e.category = "" THEN "default" ELSE e.category

\* r["type"] or "relationship"
edge_label(r) == IF r.type = "" THEN "relationship" ELSE r.type

EndpointsMissingAllowed(g, a, b) == a \in NodeIds(g)

\* if a in G.nodes and b in G.nodes
endpoints_exist(g, a, b) == a \in NodeIds(g) /\ b \in NodeIds(g)

RECURSIVE build_nodes(_, _)
build_nodes(g, es) ==
    IF es = <<>> THEN g
    ELSE build_nodes(add_node(g, Head(es).id, node_title(Head(es)),
                              node_category(Head(es))), Tail(es))

RECURSIVE build_edges(_, _)
build_edges(g, rs) ==
    IF rs = <<>> THEN g
    ELSE LET r == Head(rs)
         IN build_edges(IF endpoints_exist(g, r.entry_a, r.entry_b)
                        THEN add_edge(g, r.entry_a, r.entry_b, edge_label(r))
                        ELSE g,
                        Tail(rs))

build_graph(es, rs) == build_edges(build_nodes(EmptyGraph, es), rs)

\* G.edges / G.edges(data=True): by source node in node order, each node's
\* out-edges in insertion order.
edges_iter(g) ==
    Flatten([i \in DOMAIN g.nodes |->
               SelectSeq(g.edges, LAMBDA e : e.src = g.nodes[i].id)])

\* G.successors(n), G.predecessors(n)
successors(g, n) == {e.dst : e \in {x \in Range(g.edges) : x.src = n}}
predecessors(g, n) == {e.src : e \in {x \in Range(g.edges) : x.dst = n}}

\* G.degree(n): in-degree plus out-degree (a self-loop counts twice).
di_degree(g, n) ==
    Cardinality({i \in DOMAIN g.edges : g.edges[i].src = n})
    + Cardinality({i \in DOMAIN g.edges : g.edges[i].dst = n})

\* ------------------------------------------- graph_viewer.py: tree layout
vertical_gap == 170
horizontal_gap == 150

\* Graph.add_edge(u, v) of the undirected copy: v joins u's neighbours and
\* u joins v's, each at the end unless already there.
ug_add_edge(adj, u, v) ==
    LET a1 == IF \E i \in DOMAIN adj[u] : adj[u][i] = v THEN adj
              ELSE [adj EXCEPT ![u] = Append(@, v)]
    IN IF \E i \in DOMAIN a1[v] : a1[v][i] = u THEN a1
       ELSE [a1 EXCEPT ![v] = Append(@, u)]

RECURSIVE ug_add_edges(_, _)
ug_add_edges(adj, es) ==
    IF es = <<>> THEN adj
    ELSE ug_add_edges(ug_add_edge(adj, Head(es).src, Head(es).dst), Tail(es))

SuccessorsOnly(g) ==
    [n \in NodeIds(g) |->
        LET out == SelectSeq(edges_iter(g), LAMBDA e : e.src = n)
        IN [i \in DOMAIN out |-> out[i].dst]]

\* self.G.to_undirected(): the neighbour lists of the undirected copy, filled
\* from the directed edges in G.edges order.
to_undirected(g) == ug_add_edges([n \in NodeIds(g) |-> <<>>], edges_iter(g))

\* UG.degree(n): the neighbours, a self-loop counted twice.
ug_degree(UG, n) ==
    Len(UG[n]) + (IF \E i \in DOMAIN UG[n] : UG[n][i] = n THEN 1 ELSE 0)

\* layers.setdefault(depth, []).append(node); layers is a dict, kept here as
\* the sequence of its (depth, nodes) items in insertion order.
layers_append(layers, depth, node) ==
    IF \E i \in DOMAIN layers : layers[i].depth = depth
    THEN [i \in DOMAIN layers |->
            IF layers[i].depth = depth
            THEN [layers[i] EXCEPT !.nodes = Append(@, node)]
            ELSE layers[i]]
    ELSE Append(layers, [depth |-> depth, nodes |-> <<node>>])

\* The while loop: pop the head, file it under its depth, enqueue the
\* neighbours not yet visited one level deeper.
RECURSIVE bfs(_, _, _, _)
bfs(UG, queue, visited, layers) ==
    IF queue = <<>> THEN [visited |-> visited, layers |-> layers]
    ELSE LET node == Head(queue)[1]
             depth == Head(queue)[2]
             fresh == SelectSeq(UG[node], LAMBDA v : v \notin visited)
         IN bfs(UG,
                Tail(queue) \o [i \in DOMAIN fresh |-> <<fresh[i], depth + 1>>],
                visited \cup Range(fresh),
                layers_append(layers, depth, node))

UnreachedStepShared(layers, max_depth, node) ==
    [max_depth |-> max_depth,
     layers |-> layers_append(layers, max_depth + 1, node)]

\* max_depth += 1; layers.setdefault(max_depth, []).append(node)
unreached_step(layers, max_depth, node) ==
    [max_depth |-> max_depth + 1,
     layers |-> layers_append(layers, max_depth + 1, node)]

AppendUnreachedSkipped(nodes, visited, max_depth, layers) == layers

\* for node in self.G.nodes: if node not in visited: ...
RECURSIVE append_unreached(_, _, _, _)
append_unreached(nodes, visited, max_depth, layers) ==
    IF nodes = <<>> THEN layers
    ELSE IF Head(nodes).id \in visited
         THEN append_unreached(Tail(nodes), visited, max_depth, layers)
         ELSE LET s == unreached_step(layers, max_depth, Head(nodes).id)
              IN append_unreached(Tail(nodes), visited, s.max_depth, s.layers)

RECURSIVE SortTiesReversed(_, _)
SortTiesReversed(UG, ns) ==
    IF ns = <<>> THEN <<>>
    ELSE LET rest == SortTiesReversed(UG, SubSeq(ns, 1, Len(ns) - 1))
             n == ns[Len(ns)]
             ahead == SelectSeq(rest, LAMBDA m : ug_degree(UG, m) > ug_degree(UG, n))
             behind == SelectSeq(rest, LAMBDA m : ug_degree(UG, m) <= ug_degree(UG, n))
         IN ahead \o <<n>> \o behind

\* list.sort(key=UG.degree, reverse=True) is stable: an element goes behind
\* every element whose degree is at least its own.
RECURSIVE sort_by_degree(_, _)
sort_by_degree(UG, ns) ==
    IF ns = <<>> THEN <<>>
    ELSE LET rest == sort_by_degree(UG, SubSeq(ns, 1, Len(ns) - 1))
             n == ns[Len(ns)]
             ahead == SelectSeq(rest, LAMBDA m : ug_degree(UG, m) >= ug_degree(UG, n))
             behind == SelectSeq(rest, LAMBDA m : ug_degree(UG, m) < ug_degree(UG, n))
         IN ahead \o <<n>> \o behind

\* The depth assignment of compute_tree_layout: BFS from the root, then the
\* unreached nodes, then each layer sorted.
tree_layers(g, root) ==
    LET UG == to_undirected(g)
        r == bfs(UG, <<<<root, 0>>>>, {root}, <<>>)
        max_depth == Max({r.layers[i].depth : i \in DOMAIN r.layers})
        all == append_unreached(g.nodes, r.visited, max_depth, r.layers)
    IN [i \in DOMAIN all |->
          [depth |-> all[i].depth, nodes |-> sort_by_degree(UG, all[i].nodes)]]

\* x = start_x + i * horizontal_gap, y = depth * vertical_gap
layer_pos(layer, i) ==
    LET count == Len(layer.nodes)
        total_width == (count - 1) * horizontal_gap
        start_x == (0 - total_width) \div 2
    IN <<start_x + (i - 1) * horizontal_gap, layer.depth * vertical_gap>>

compute_tree_layout(g, root) ==
    LET layers == tree_layers(g, root)
        placed == {<<k, i>> \in (DOMAIN layers) \X (1..Len(g.nodes)) :
                      i <= Len(layers[k].nodes)}
    IN [n \in {layers[p[1]].nodes[p[2]] : p \in placed} |->
          LET p == CHOOSE q \in placed : layers[q[1]].nodes[q[2]] = n
          IN layer_pos(layers[p[1]], p[2])]

\* ------------------------------------------------------------ inputs
\* Rows of table entries: ids 1..n in rowid order.
Titles == <<"Ann", "", "Cat", "Dan", "Eve">>
Categories == <<"Character", "", "Location", "Item", "Event">>
EntryRow(i) == [id |-> i,
                title |-> Titles[((i - 1) % Len(Titles)) + 1],
                description |-> "",
                category |-> Categories[((i - 1) % Len(Categories)) + 1],
                tags |-> "",
                synonyms |-> ""]
EntryTables == {[i \in 1..n |-> EntryRow(i)] : n \in 0..MaxId}

\* Rows of table relationships: any endpoints, also ids that are no entry.
Types == {"", "Ally"}
RelRow(i, a, b, t) == [id |-> i, entry_a |-> a, entry_b |-> b, type |-> t]
RelCols == [entry_a : Ids, entry_b : Ids, type : Types]
RelTables(n) ==
    {[i \in 1..n |-> RelRow(i, f[i].entry_a, f[i].entry_b, f[i].type)] :
        f \in [1..n -> RelCols]}

\* The application's windows before MainWindow.__init__ has run.
NoMain == [current_entry_id |-> None, loading_entry |-> FALSE,
           search_bar |-> "", entry_list |-> <<>>,
           fields |-> [title |-> "", description |-> "", category |-> "",
                       tags |-> "", synonyms |-> ""]]
NoDialog == [open |-> FALSE, current_entry_id |-> None,
             other_entry_combo |-> <<>>, rel_list |-> <<>>]

\* ------------------------------------------------------------ SpecGraph
InitGraph ==
    /\ entries \in EntryTables
    /\ \E n \in 0..MaxRels : relationships \in RelTables(n)
    /\ G = EmptyGraph
    /\ root_id = None
    /\ current_layout = "none"
    /\ positions = <<>>
    /\ node_items = <<>>
    /\ edge_items = <<>>
    /\ phase = "rows"
    /\ last_event = [op |-> "none"]
    /\ db_seq = [entries |-> MaxId, relationships |-> Len(relationships)]
    /\ main = NoMain
    /\ rel_dialog = NoDialog

\* G = build_graph(entries, relationships)
BuildGraph ==
    /\ phase = "rows"
    /\ G' = build_graph(entries, relationships)
    /\ phase' = "built"
    /\ last_event' = [op |-> "build_graph"]
    /\ UNCHANGED <<entries, relationships, root_id, current_layout, positions,
                   node_items, edge_items, appVars>>

\* positions = compute_tree_layout(root) for a root that is a node of G
TreeLayout ==
    /\ phase = "built"
    /\ \E r \in NodeIds(G) :
          /\ root_id' = r
          /\ positions' = compute_tree_layout(G, r)
    /\ phase' = "laid"
    /\ last_event' = [op |-> "compute_tree_layout"]
    /\ UNCHANGED <<entries, relationships, G, current_layout, node_items, edge_items,
                   appVars>>

NextGraph == BuildGraph \/ TreeLayout

SpecGraph == InitGraph /\ [][NextGraph]_vars

\* ----------------------------------------------------------- SpecLayout
\* The layout inputs: every entry 1..MaxId and up to MaxEdges relationship
\* rows between any of them, self-loops and duplicates included, inserted one
\* at a time before the graph is built.
InitLayout ==
    /\ entries = [i \in Ids |-> EntryRow(i)]
    /\ relationships = <<>>
    /\ G = EmptyGraph
    /\ root_id = None
    /\ current_layout = "none"
    /\ positions = <<>>
    /\ node_items = <<>>
    /\ edge_items = <<>>
    /\ phase = "rows"
    /\ last_event = [op |-> "none"]
    /\ db_seq = [entries |-> MaxId, relationships |-> 0]
    /\ main = NoMain
    /\ rel_dialog = NoDialog

\* INSERT INTO relationships (entry_a, entry_b, type) VALUES (a, b, '')
InsertRow ==
    /\ phase = "rows"
    /\ db_seq.relationships < MaxEdges
    /\ \E a \in Ids, b \in Ids :
          relationships' = Append(relationships,
                                  RelRow(db_seq.relationships + 1, a, b, ""))
    /\ db_seq' = [db_seq EXCEPT !.relationships = @ + 1]
    /\ last_event' = [op |-> "insert"]
    /\ UNCHANGED <<entries, main, rel_dialog, viewerVars, phase>>

NextLayout == InsertRow \/ BuildGraph \/ TreeLayout

SpecLayout == InitLayout /\ [][NextLayout]_vars

\* ------------------------------------------ graph_viewer.py: the scene
\* Opacities in percent: 1.0, 0.25 and 0.2.
full_opacity == 100
dim_node_opacity == 25
dim_edge_opacity == 20

base_radius == 22
mult == 4
degree_cap == 8
curvature == 40
scale == 320

Abs(x) == IF x < 0 THEN 0 - x ELSE x
Min(a, b) == IF a <= b THEN a ELSE b

\* color_map.get(category, "#AAAAAA")
color_map(category) ==
    CASE category = "Character" -> "#66AAFF"
      [] category = "Location" -> "#88CC66"
      [] category = "Item" -> "#FFCC66"
      [] category = "Event" -> "#CC66FF"
      [] OTHER -> "#AAAAAA"

\* CurvedEdgeItem.update_path: the quadratic curve from p1 to p2. The control
\* point mid + perp * curvature, perp = (-vy, vx) / manhattanLength, is kept
\* exactly as the fraction num / den.
edge_path(p1, p2) ==
    LET vx == p2[1] - p1[1]
        vy == p2[2] - p1[2]
        m == Abs(0 - vy) + Abs(vx)
    IN [start |-> p1,
        ctrl |-> IF m > 0
                 THEN [num |-> <<(p1[1] + p2[1]) * m - 2 * curvature * vy,
                                 (p1[2] + p2[2]) * m + 2 * curvature * vx>>,
                       den |-> 2 * m]
                 ELSE [num |-> <<p1[1] + p2[1], p1[2] + p2[2]>>, den |-> 2],
        end |-> p2]

\* A CurvedEdgeItem before its first update_path: an empty QPainterPath.
empty_path == [start |-> <<>>, ctrl |-> <<>>, end |-> <<>>]

\* edge.update_path(): p1 = src_item.center(), p2 = dst_item.center()
update_path(items, e) ==
    [e EXCEPT !.path = edge_path(items[e.src].pos, items[e.dst].pos)]

\* for edge in self.edge_items: edge.update_path()
update_all_edges(v) ==
    [v EXCEPT !.edge_items =
        [i \in DOMAIN v.edge_items |-> update_path(v.node_items, v.edge_items[i])]]

OnNodeMovedIgnored(v, node_id) == v

OnNodeMovedStoresPosition(v, node_id) ==
    update_all_edges([v EXCEPT !.positions =
        [n \in DOMAIN v.positions |->
            IF n = node_id THEN v.node_items[n].pos ELSE v.positions[n]]])

\* GraphViewer.on_node_moved
on_node_moved(v, node_id) == update_all_edges(v)

\* NodeItem.itemChange on ItemPositionHasChanged (the viewer is never None)
itemChange(v, node_id) == on_node_moved(v, node_id)

\* QGraphicsItem.setPos: a position that differs is stored and reported
\* through itemChange; an equal one changes nothing.
setPos(v, node_id, p) ==
    IF v.node_items[node_id].pos = p THEN v
    ELSE itemChange([v EXCEPT !.node_items[node_id].pos = p], node_id)

\* The keys of self.positions in the order of the graph's nodes.
position_keys(g, pos) ==
    LET ns == SelectSeq(g.nodes, LAMBDA n : n.id \in DOMAIN pos)
    IN [i \in DOMAIN ns |-> ns[i].id]

RECURSIVE set_positions(_, _)
set_positions(v, keys) ==
    IF keys = <<>> THEN v
    ELSE set_positions(IF Head(keys) \in DOMAIN v.node_items
                       THEN setPos(v, Head(keys), v.positions[Head(keys)])
                       ELSE v,
                       Tail(keys))

ApplyPositionsSkipped(g, v) == v

\* GraphViewer.apply_positions
apply_positions(g, v) ==
    update_all_edges(set_positions(v, position_keys(g, v.positions)))

\* One NodeItem of draw_graph: radius by degree, colour by category, placed
\* at positions.get(node, (0.0, 0.0)), fully opaque.
new_node_item(g, pos, n) ==
    [node_id |-> n.id,
     pos |-> IF n.id \in DOMAIN pos THEN pos[n.id] ELSE <<0, 0>>,
     radius |-> base_radius + mult * Min(di_degree(g, n.id), degree_cap),
     fill_color |-> color_map(n.category),
     label |-> n.label,
     opacity |-> full_opacity]

\* One CurvedEdgeItem of draw_graph, before update_path.
new_edge_item(e) ==
    [src |-> e.src, dst |-> e.dst, label |-> e.label, path |-> empty_path,
     opacity |-> full_opacity, label_opacity |-> full_opacity]

PairKeyUnsorted(e) == <<e.src, e.dst>>

\* key = tuple(sorted((src, dst)))
pair_key(e) == {e.src, e.dst}

\* The edge loop of draw_graph: an edge whose unordered pair was seen is
\* skipped, any other gets an item whose path is computed at once.
RECURSIVE draw_edges(_, _, _, _)
draw_edges(items, es, seen_pairs, drawn) ==
    IF es = <<>> THEN drawn
    ELSE LET e == Head(es)
         IN IF pair_key(e) \in seen_pairs
            THEN draw_edges(items, Tail(es), seen_pairs, drawn)
            ELSE IF e.src \notin DOMAIN items \/ e.dst \notin DOMAIN items
                 THEN draw_edges(items, Tail(es), seen_pairs \cup {pair_key(e)}, drawn)
                 ELSE draw_edges(items, Tail(es), seen_pairs \cup {pair_key(e)},
                                 Append(drawn, update_path(items, new_edge_item(e))))

DrawGraphUnplaced(g, pos) ==
    LET items == [id \in NodeIds(g) |->
                    new_node_item(g, <<>>,
                        CHOOSE n \in Range(g.nodes) : n.id = id)]
    IN [positions |-> pos,
        node_items |-> items,
        edge_items |-> draw_edges(items, edges_iter(g), {}, <<>>)]

\* GraphViewer.draw_graph: the scene is rebuilt from G and self.positions.
draw_graph(g, pos) ==
    LET items == [id \in NodeIds(g) |->
                    new_node_item(g, pos,
                        CHOOSE n \in Range(g.nodes) : n.id = id)]
    IN [positions |-> pos,
        node_items |-> items,
        edge_items |-> draw_edges(items, edges_iter(g), {}, <<>>)]

HighlightSuccessorsOnly(g, node_id) == successors(g, node_id) \cup {node_id}

\* neighbors = succ | pred; neighbors.add(node_id)
highlight_set(g, node_id) ==
    successors(g, node_id) \cup predecessors(g, node_id) \cup {node_id}

\* GraphViewer.highlight_neighbors
highlight_neighbors(g, v, node_id) ==
    LET neighbors == highlight_set(g, node_id)
        lit(e) == e.src \in neighbors /\ e.dst \in neighbors
    IN [v EXCEPT
          !.node_items = [n \in DOMAIN v.node_items |->
              [v.node_items[n] EXCEPT !.opacity =
                  IF n \in neighbors THEN full_opacity ELSE dim_node_opacity]],
          !.edge_items = [i \in DOMAIN v.edge_items |->
              [v.edge_items[i] EXCEPT
                  !.opacity = IF lit(v.edge_items[i]) THEN full_opacity
                              ELSE dim_edge_opacity,
                  !.label_opacity = IF lit(v.edge_items[i]) THEN full_opacity
                                    ELSE dim_edge_opacity]]]

\* nx.spring_layout(self.G, k=1.2, iterations=70) starts from random points:
\* its result is one of several outcomes. Each outcome gives the i-th node of
\* the graph a point of the unit square; a graph of one node is centred.
RawOutcomes ==
    {<<<<-1, -1>>, <<1, -1>>, <<1, 1>>, <<-1, 1>>, <<0, 0>>>>,
     <<<<0, 1>>, <<-1, 0>>, <<0, -1>>, <<1, 0>>, <<0, 0>>>>}

spring_layout(g) ==
    IF Len(g.nodes) = 1 THEN {[n \in NodeIds(g) |-> <<0, 0>>]}
    ELSE {[n \in NodeIds(g) |->
             LET i == CHOOSE j \in DOMAIN g.nodes : g.nodes[j].id = n
             IN raw[((i - 1) % Len(raw)) + 1]] : raw \in RawOutcomes}

\* GraphViewer.compute_force_layout: the outcomes, scaled.
compute_force_layout(g) ==
    {[n \in DOMAIN raw_pos |-> <<raw_pos[n][1] * scale, raw_pos[n][2] * scale>>] :
        raw_pos \in spring_layout(g)}

\* UG.neighbors(root_id) raises NetworkXError for a root that is no node.
tree_layout_raises(g, root) == root \notin NodeIds(g)

\* if self.root_id is not None and self.root_id in self.G.nodes (__init__)
init_root_valid(g, root) == root # None /\ root \in NodeIds(g)

TreeRootUnchecked(g, root) == TRUE

\* if self.root_id is not None and self.root_id in self.G.nodes (apply_tree_layout)
tree_root_valid(g, root) == root # None /\ root \in NodeIds(g)

\* The viewer's mutable state as one value.
viewer == [positions |-> positions, node_items |-> node_items,
           edge_items |-> edge_items]

\* The node shapes that no longer sit where the position mapping puts them.
moved_nodes == {n \in DOMAIN node_items : node_items[n].pos # positions[n]}

\* ------------------------------------------------------------ SpecViewer
\* The relationship tables of the viewer sessions: the slices of one table
\* that holds a chain, a triangle, a pair joined in both directions and a
\* pair joined twice.
MasterRels ==
    <<RelRow(1, 1, 2, "Ally"),
      RelRow(2, 3, 2, ""),
      RelRow(3, 1, MaxId, "Mentor"),
      RelRow(4, 2, 1, "Rival"),
      RelRow(5, 1, 2, "Enemy")>>

ViewerRelTables ==
    {SubSeq(MasterRels, i, j) : i \in 1..Len(MasterRels), j \in 0..Len(MasterRels)}

\* The points a node is dragged to: one per node, off every layout point.
DragPoints(n) == {<<40 * n, 60 - n>>}

InitViewer ==
    /\ entries \in EntryTables
    /\ relationships \in ViewerRelTables
    /\ G = EmptyGraph
    /\ root_id = None
    /\ current_layout = "none"
    /\ positions = <<>>
    /\ node_items = <<>>
    /\ edge_items = <<>>
    /\ phase = "closed"
    /\ last_event = [op |-> "none"]
    /\ db_seq = [entries |-> MaxId, relationships |-> Len(MasterRels)]
    /\ main = NoMain
    /\ rel_dialog = NoDialog

\* open_map: G = build_graph(...); GraphViewer(G, root_id=...). __init__
\* picks the layout, computes the positions and draws the graph.
OpenMap ==
    /\ phase = "closed"
    /\ \E r \in {None} \cup Ids :
        LET g == build_graph(entries, relationships)
        IN /\ G' = g
           /\ root_id' = r
           /\ IF init_root_valid(g, r)
              THEN /\ current_layout' = "tree"
                   /\ IF tree_layout_raises(g, r)
                      THEN /\ phase' = "error"
                           /\ UNCHANGED <<positions, node_items, edge_items>>
                      ELSE LET v == draw_graph(g, compute_tree_layout(g, r))
                           IN /\ positions' = v.positions
                              /\ node_items' = v.node_items
                              /\ edge_items' = v.edge_items
                              /\ phase' = "open"
              ELSE /\ current_layout' = "force"
                   /\ \E pos \in compute_force_layout(g) :
                        LET v == draw_graph(g, pos)
                        IN /\ positions' = v.positions
                           /\ node_items' = v.node_items
                           /\ edge_items' = v.edge_items
                   /\ phase' = "open"
    /\ last_event' = [op |-> "__init__"]
    /\ UNCHANGED <<entries, relationships, appVars>>

\* NodeItem.mousePressEvent -> GraphViewer.on_node_clicked
Click ==
    /\ phase = "open"
    /\ \E n \in NodeIds(G) :
        LET v == highlight_neighbors(G, viewer, n)
        IN /\ node_items' = v.node_items
           /\ edge_items' = v.edge_items
           /\ positions' = v.positions
           /\ last_event' = [op |-> "click", node |-> n]
    /\ UNCHANGED <<entries, relationships, G, root_id, current_layout, phase, appVars>>

\* A drag of node n to p: the press on n runs on_node_clicked, the move sets
\* the item's position, which reports through itemChange.
Drag ==
    /\ phase = "open"
    /\ \E n \in NodeIds(G) : \E p \in DragPoints(n) :
        LET v == setPos(highlight_neighbors(G, viewer, n), n, p)
        IN /\ node_items' = v.node_items
           /\ edge_items' = v.edge_items
           /\ positions' = v.positions
           /\ last_event' = [op |-> "drag", node |-> n, p |-> p]
    /\ UNCHANGED <<entries, relationships, G, root_id, current_layout, phase, appVars>>

\* GraphViewer.apply_tree_layout (the Tree Layout button)
ApplyTreeLayout ==
    /\ phase = "open"
    /\ IF tree_root_valid(G, root_id)
       THEN /\ current_layout' = "tree"
            /\ IF tree_layout_raises(G, root_id)
               THEN /\ last_event' = [op |-> "apply_tree_layout", raised |-> TRUE,
                                      moved |-> moved_nodes]
                    /\ UNCHANGED <<positions, node_items, edge_items>>
               ELSE LET v == apply_positions(G,
                              [viewer EXCEPT !.positions =
                                  compute_tree_layout(G, root_id)])
                    IN /\ positions' = v.positions
                       /\ node_items' = v.node_items
                       /\ edge_items' = v.edge_items
                       /\ last_event' = [op |-> "apply_tree_layout",
                                         raised |-> FALSE, moved |-> moved_nodes]
       ELSE /\ last_event' = [op |-> "apply_tree_layout", raised |-> FALSE,
                              moved |-> moved_nodes]
            /\ UNCHANGED <<current_layout, positions, node_items, edge_items>>
    /\ UNCHANGED <<entries, relationships, G, root_id, phase, appVars>>

\* GraphViewer.apply_force_layout (the Force Layout button)
ApplyForceLayout ==
    /\ phase = "open"
    /\ current_layout' = "force"
    /\ \E pos \in compute_force_layout(G) :
        LET v == apply_positions(G, [viewer EXCEPT !.positions = pos])
        IN /\ positions' = v.positions
           /\ node_items' = v.node_items
           /\ edge_items' = v.edge_items
    /\ last_event' = [op |-> "apply_force_layout", raised |-> FALSE,
                      moved |-> moved_nodes]
    /\ UNCHANGED <<entries, relationships, G, root_id, phase, appVars>>

NextViewer == OpenMap \/ Click \/ Drag \/ ApplyTreeLayout \/ ApplyForceLayout

SpecViewer == InitViewer /\ [][NextViewer]_vars

\* ------------------------------------------------------- database.py
\* Database.get_entry: the row, or None.
has_entry(es, entry_id) == \E i \in DOMAIN es : es[i].id = entry_id
get_entry(es, entry_id) == es[CHOOSE i \in DOMAIN es : es[i].id = entry_id]

\* Database.add_entry(title): INSERT with the next AUTOINCREMENT id; the
\* other columns take the defaults "".
add_entry(es, new_id, title) ==
    Append(es, [id |-> new_id, title |-> title, description |-> "",
                category |-> "", tags |-> "", synonyms |-> ""])

\* Database.update_entry: UPDATE ... WHERE id = ? (no row, no change)
update_entry(es, entry_id, f) ==
    [i \in DOMAIN es |->
        IF es[i].id = entry_id
        THEN [id |-> entry_id, title |-> f.title, description |-> f.description,
              category |-> f.category, tags |-> f.tags, synonyms |-> f.synonyms]
        ELSE es[i]]

\* DELETE FROM entries WHERE id = ?
delete_entry_row(es, entry_id) == SelectSeq(es, LAMBDA e : e.id # entry_id)

\* DELETE FROM relationships WHERE entry_a = ? OR entry_b = ?
delete_relationships_of(rs, entry_id) ==
    SelectSeq(rs, LAMBDA r : r.entry_a # entry_id /\ r.entry_b # entry_id)

\* Database.delete_entry_and_relationships
delete_entry_and_relationships(es, rs, entry_id) ==
    [entries |-> delete_entry_row(es, entry_id),
     relationships |-> delete_relationships_of(rs, entry_id)]

\* Database.add_relationship: INSERT with the next AUTOINCREMENT id. The
\* FOREIGN KEY clauses are not enforced (the connection never turns
\* foreign_keys on), so any ids are stored.
add_relationship(rs, new_id, entry_a, entry_b, rel_type) ==
    Append(rs, RelRow(new_id, entry_a, entry_b, rel_type))

\* Database.get_relationships_for_entry
get_relationships_for_entry(rs, entry_id) ==
    SelectSeq(rs, LAMBDA r : r.entry_a = entry_id \/ r.entry_b = entry_id)

\* Database.delete_relationship
delete_relationship(rs, rel_id) == SelectSeq(rs, LAMBDA r : r.id # rel_id)

\* ------------------------------------------------------------ main.py
EmptyFields == [title |-> "", description |-> "", category |-> "",
                tags |-> "", synonyms |-> ""]

fields_of(row) == [title |-> row.title, description |-> row.description,
                   category |-> row.category, tags |-> row.tags,
                   synonyms |-> row.synonyms]

AutosaveWhileLoading(es, m) ==
    IF m.current_entry_id = None THEN es
    ELSE IF m.fields = EmptyFields THEN es
    ELSE update_entry(es, m.current_entry_id, m.fields)

\* MainWindow.autosave_current_entry: the entries table afterwards.
autosave_current_entry(es, m) ==
    IF m.loading_entry THEN es
    ELSE IF m.current_entry_id = None THEN es
    ELSE IF m.fields = EmptyFields THEN es
    ELSE update_entry(es, m.current_entry_id, m.fields)

\* MainWindow.load_all_entries: one list item per row, carrying the id.
load_all_entries(es) == [i \in DOMAIN es |-> es[i].id]

\* MainWindow.load_entry_details(item): [entries, main] afterwards. The
\* autosave runs with loading_entry already set. data[...] on a missing row
\* raises and leaves loading_entry set.
load_entry_details(es, m, entry_id) ==
    LET m1 == [m EXCEPT !.loading_entry = TRUE]
        es1 == autosave_current_entry(es, m1)
        m2 == [m1 EXCEPT !.current_entry_id = entry_id]
    IN IF has_entry(es1, entry_id)
       THEN [entries |-> es1,
             main |-> [m2 EXCEPT !.fields = fields_of(get_entry(es1, entry_id)),
                                 !.loading_entry = FALSE]]
       ELSE [entries |-> es1, main |-> m2]

\* ---------------------------------------------------- relationship_ui.py
\* RelationshipEditorDialog.populate_other_entries: every entry but the
\* dialog's own, in table order.
populate_other_entries(es, current) ==
    LET others == SelectSeq(es, LAMBDA e : e.id # current)
    IN [i \in DOMAIN others |-> others[i].id]

\* RelationshipEditorDialog.load_relationships: one item per relationship of
\* the dialog's entry, carrying the relationship id.
load_relationships(rs, current) ==
    LET mine == get_relationships_for_entry(rs, current)
    IN [i \in DOMAIN mine |-> mine[i].id]

\* self.rel_type_field.text().strip(), on the texts the user types.
TypedTypes == {"", " ", "Ally", " Ally "}
strip(t) == CASE t = " " -> ""
              [] t = " Ally " -> "Ally"
              [] OTHER -> t

\* The contents the user types into the form.
TypedFields ==
    {EmptyFields,
     [title |-> "Ann", description |-> "", category |-> "Character",
      tags |-> "", synonyms |-> ""]}

\* --------------------------------------------------------------- SpecApp
\* MainWindow.__init__ on an empty writer_memory.db: no entry is current, the
\* list is loaded from the table.
InitApp ==
    /\ entries = <<>>
    /\ relationships = <<>>
    /\ db_seq = [entries |-> 0, relationships |-> 0]
    /\ main = [NoMain EXCEPT !.entry_list = load_all_entries(<<>>)]
    /\ rel_dialog = NoDialog
    /\ G = EmptyGraph
    /\ root_id = None
    /\ current_layout = "none"
    /\ positions = <<>>
    /\ node_items = <<>>
    /\ edge_items = <<>>
    /\ phase = "app"
    /\ last_event = [op |-> "none"]

\* The user types into the form fields.
EditFields ==
    /\ phase = "app"
    /\ \E f \in TypedFields : main' = [main EXCEPT !.fields = f]
    /\ last_event' = [op |-> "edit"]
    /\ UNCHANGED <<entries, relationships, db_seq, rel_dialog, viewerVars, phase>>

\* MainWindow.create_entry (New Entry)
CreateEntry ==
    /\ phase = "app"
    /\ db_seq.entries < MaxCreated
    /\ LET es1 == autosave_current_entry(entries, main)
           new_id == db_seq.entries + 1
           es2 == add_entry(es1, new_id, "New Entry")
           m1 == [main EXCEPT !.entry_list = load_all_entries(es2)]
           r == load_entry_details(es2, m1, new_id)
       IN /\ entries' = r.entries
          /\ main' = r.main
          /\ db_seq' = [db_seq EXCEPT !.entries = new_id]
          /\ last_event' = [op |-> "create_entry", id |-> new_id]
    /\ UNCHANGED <<relationships, rel_dialog, viewerVars, phase>>

\* entry_list.itemClicked -> MainWindow.load_entry_details
SelectEntry ==
    /\ phase = "app"
    /\ \E k \in DOMAIN main.entry_list :
        LET r == load_entry_details(entries, main, main.entry_list[k])
        IN /\ entries' = r.entries
           /\ main' = r.main
           /\ last_event' = [op |-> "load_entry_details", id |-> main.entry_list[k]]
    /\ UNCHANGED <<relationships, db_seq, rel_dialog, viewerVars, phase>>

\* MainWindow.save_entry (Save Changes)
SaveEntry ==
    /\ phase = "app"
    /\ main.current_entry_id # None
    /\ LET es1 == update_entry(entries, main.current_entry_id, main.fields)
       IN /\ entries' = es1
          /\ main' = [main EXCEPT !.entry_list = load_all_entries(es1)]
    /\ last_event' = [op |-> "save_entry", id |-> main.current_entry_id]
    /\ UNCHANGED <<relationships, db_seq, rel_dialog, viewerVars, phase>>

\* MainWindow.delete_entry (Delete Entry)
DeleteEntry ==
    /\ phase = "app"
    /\ main.current_entry_id # None
    /\ LET d == delete_entry_and_relationships(entries, relationships,
                                               main.current_entry_id)
       IN /\ entries' = d.entries
          /\ relationships' = d.relationships
          /\ main' = [main EXCEPT !.current_entry_id = None,
                                  !.fields = EmptyFields,
                                  !.entry_list = load_all_entries(d.entries)]
    /\ last_event' = [op |-> "delete_entry", id |-> main.current_entry_id]
    /\ UNCHANGED <<db_seq, rel_dialog, viewerVars, phase>>

\* MainWindow.open_relationship_editor (Relationships): the dialog is built
\* from the store as it is now and shown non-modally. One dialog at a time.
OpenRelationshipEditor ==
    /\ phase = "app"
    /\ main.current_entry_id # None
    /\ ~rel_dialog.open
    /\ LET es1 == autosave_current_entry(entries, main)
       IN /\ entries' = es1
          /\ rel_dialog' =
               [open |-> TRUE,
                current_entry_id |-> main.current_entry_id,
                other_entry_combo |->
                    populate_other_entries(es1, main.current_entry_id),
                rel_list |-> load_relationships(relationships, main.current_entry_id)]
    /\ last_event' = [op |-> "open_relationship_editor", id |-> main.current_entry_id]
    /\ UNCHANGED <<relationships, db_seq, main, viewerVars, phase>>

\* RelationshipEditorDialog.add_relationship (Add): the user has picked an
\* item of the combo box and typed a type.
AddRelationship ==
    /\ phase = "app"
    /\ rel_dialog.open
    /\ db_seq.relationships < MaxAdded
    /\ \E k \in DOMAIN rel_dialog.other_entry_combo, t \in TypedTypes :
        LET other_id == rel_dialog.other_entry_combo[k]
            rel_type == IF strip(t) = "" THEN "relationship" ELSE strip(t)
            new_id == db_seq.relationships + 1
            rs1 == add_relationship(relationships, new_id,
                                    rel_dialog.current_entry_id, other_id, rel_type)
        IN /\ relationships' = rs1
           /\ db_seq' = [db_seq EXCEPT !.relationships = new_id]
           /\ rel_dialog' = [rel_dialog EXCEPT !.rel_list =
                                load_relationships(rs1, rel_dialog.current_entry_id)]
           /\ last_event' = [op |-> "add_relationship", id |-> new_id]
    /\ UNCHANGED <<entries, main, viewerVars, phase>>

\* RelationshipEditorDialog.delete_selected_relationship (Delete Selected)
DeleteSelectedRelationship ==
    /\ phase = "app"
    /\ rel_dialog.open
    /\ \E k \in DOMAIN rel_dialog.rel_list :
        LET rs1 == delete_relationship(relationships, rel_dialog.rel_list[k])
        IN /\ relationships' = rs1
           /\ rel_dialog' = [rel_dialog EXCEPT !.rel_list =
                                load_relationships(rs1, rel_dialog.current_entry_id)]
           /\ last_event' = [op |-> "delete_selected_relationship",
                             id |-> rel_dialog.rel_list[k]]
    /\ UNCHANGED <<entries, db_seq, main, viewerVars, phase>>

\* close_btn.clicked -> QDialog.accept
CloseDialog ==
    /\ phase = "app"
    /\ rel_dialog.open
    /\ rel_dialog' = NoDialog
    /\ last_event' = [op |-> "accept"]
    /\ UNCHANGED <<entries, relationships, db_seq, main, viewerVars, phase>>

NextApp ==
    \/ EditFields \/ CreateEntry \/ SelectEntry \/ SaveEntry \/ DeleteEntry
    \/ OpenRelationshipEditor \/ AddRelationship \/ DeleteSelectedRelationship
    \/ CloseDialog

SpecApp == InitApp /\ [][NextApp]_vars

\* ------------------------------------------------- main.py, search.py
\* MainWindow.select_entry_by_id(entry_id), the callback of a node click:
\* [entries, main] afterwards. The autosave runs with loading_entry already
\* set; current_entry_id is assigned before the list is searched; the fields
\* are loaded only when the list holds an item of that id.
select_entry_by_id(es, m, entry_id) ==
    LET m1 == [m EXCEPT !.loading_entry = TRUE]
        es1 == autosave_current_entry(es, m1)
        m2 == [m1 EXCEPT !.current_entry_id = entry_id]
    IN IF \E i \in DOMAIN m.entry_list : m.entry_list[i] = entry_id
       THEN IF has_entry(es1, entry_id)
            THEN [entries |-> es1,
                  main |-> [m2 EXCEPT !.fields = fields_of(get_entry(es1, entry_id)),
                                      !.loading_entry = FALSE]]
            ELSE [entries |-> es1, main |-> m2]
       ELSE [entries |-> es1, main |-> [m2 EXCEPT !.loading_entry = FALSE]]

\* prepare_search_data: f"{title} {description} {category} {tags} {synonyms}"
combined(e) ==
    e.title \o " " \o e.description \o " " \o e.category \o " " \o e.tags
    \o " " \o e.synonyms

\* int(fuzz.token_sort_ratio(query, text)) for the query "Ann": 200 * LCS /
\* (len(query) + len(text)) over the sorted, space-joined tokens.
token_sort_ratio(text) ==
    CASE text = "Ann  Character  " -> 37
      [] text = "Cat  Location  " -> 13
      [] text = "New Entry    " -> 16
      [] OTHER -> 0

limit == 20

\* Insertion of id into ids, kept in descending order of score, equal scores
\* in input order.
RECURSIVE by_score(_, _)
by_score(es, ids) ==
    IF ids = <<>> THEN <<>>
    ELSE LET rest == by_score(es, SubSeq(ids, 1, Len(ids) - 1))
             n == ids[Len(ids)]
             sc(i) == token_sort_ratio(combined(get_entry(es, i)))
         IN SelectSeq(rest, LAMBDA m : sc(m) >= sc(n)) \o <<n>>
            \o SelectSeq(rest, LAMBDA m : sc(m) < sc(n))

\* fuzzy_search(query, entries): process.extract(..., limit=20), the ids of
\* the best matches, best first.
fuzzy_search(es) ==
    LET ranked == by_score(es, load_all_entries(es))
    IN SubSeq(ranked, 1, Min(limit, Len(ranked)))

\* MainWindow.run_search with text in the search bar: the entry list afterwards.
run_search(es, text) ==
    IF strip(text) = "" THEN load_all_entries(es) ELSE fuzzy_search(es)

\* The texts the user types into the search bar.
TypedQueries == {"", "Ann"}

\* GraphViewer.__init__: the viewers it can build for graph g and root r.
GraphViewerInit(g, r) ==
    IF init_root_valid(g, r)
    THEN {[current_layout |-> "tree",
           view |-> draw_graph(g, compute_tree_layout(g, r))]}
    ELSE {[current_layout |-> "force", view |-> draw_graph(g, pos)] :
             pos \in compute_force_layout(g)}

\* --------------------------------------------------------------- SpecMap
\* The main window started on a store that holds entries and relationships,
\* its relationship editor, and the relationship map opened from the editor
\* with the editor's select_entry_in_main as the click callback.
InitMap ==
    /\ entries = [i \in 1..MaxCreated |-> EntryRow(i)]
    /\ relationships = SubSeq(MasterRels, 1, MaxAdded)
    /\ db_seq = [entries |-> MaxCreated, relationships |-> MaxAdded]
    /\ main = [NoMain EXCEPT !.entry_list = load_all_entries(entries)]
    /\ rel_dialog = NoDialog
    /\ G = EmptyGraph
    /\ root_id = None
    /\ current_layout = "none"
    /\ positions = <<>>
    /\ node_items = <<>>
    /\ edge_items = <<>>
    /\ phase = "app"
    /\ last_event = [op |-> "none"]

\* search_bar.textChanged -> MainWindow.run_search
RunSearch ==
    /\ phase = "app"
    /\ \E q \in TypedQueries \ {main.search_bar} :
          main' = [main EXCEPT !.search_bar = q,
                               !.entry_list = run_search(entries, q)]
    /\ last_event' = [op |-> "run_search"]
    /\ UNCHANGED <<entries, relationships, db_seq, rel_dialog, viewerVars, phase>>

\* RelationshipEditorDialog.open_map (View Map): the graph is built from the
\* store as it is now and a GraphViewer is constructed on it, rooted at the
\* dialog's entry.
OpenMapFromEditor ==
    /\ phase = "app"
    /\ rel_dialog.open
    /\ current_layout = "none"
    /\ LET g == build_graph(entries, relationships)
       IN /\ G' = g
          /\ root_id' = rel_dialog.current_entry_id
          /\ \E w \in GraphViewerInit(g, rel_dialog.current_entry_id) :
                /\ current_layout' = w.current_layout
                /\ positions' = w.view.positions
                /\ node_items' = w.view.node_items
                /\ edge_items' = w.view.edge_items
    /\ last_event' = [op |-> "open_map"]
    /\ UNCHANGED <<entries, relationships, db_seq, main, rel_dialog, phase>>

\* NodeItem.mousePressEvent -> GraphViewer.on_node_clicked: the highlight,
\* then entry_callback -> select_entry_in_main -> MainWindow.select_entry_by_id
MapClick ==
    /\ phase = "app"
    /\ current_layout # "none"
    /\ \E n \in NodeIds(G) :
        LET v == highlight_neighbors(G, viewer, n)
            r == select_entry_by_id(entries, main, n)
        IN /\ node_items' = v.node_items
           /\ edge_items' = v.edge_items
           /\ positions' = v.positions
           /\ entries' = r.entries
           /\ main' = r.main
           /\ last_event' = [op |-> "click", node |-> n]
    /\ UNCHANGED <<relationships, db_seq, rel_dialog, G, root_id, current_layout,
                   phase>>

\* A drag of node n in the map: the press runs on_node_clicked with its
\* callback, the move sets the item's position.
MapDrag ==
    /\ phase = "app"
    /\ current_layout # "none"
    /\ \E n \in NodeIds(G) : \E p \in DragPoints(n) :
        LET v == setPos(highlight_neighbors(G, viewer, n), n, p)
            r == select_entry_by_id(entries, main, n)
        IN /\ node_items' = v.node_items
           /\ edge_items' = v.edge_items
           /\ positions' = v.positions
           /\ entries' = r.entries
           /\ main' = r.main
           /\ last_event' = [op |-> "drag", node |-> n, p |-> p]
    /\ UNCHANGED <<relationships, db_seq, rel_dialog, G, root_id, current_layout,
                   phase>>

\* The map's Tree Layout and Force Layout buttons.
MapApplyLayout ==
    /\ phase = "app"
    /\ current_layout # "none"
    /\ \/ /\ tree_root_valid(G, root_id)
          /\ current_layout' = "tree"
          /\ LET v == apply_positions(G,
                         [viewer EXCEPT !.positions = compute_tree_layout(G, root_id)])
             IN /\ positions' = v.positions
                /\ node_items' = v.node_items
                /\ edge_items' = v.edge_items
          /\ last_event' = [op |-> "apply_tree_layout", raised |-> FALSE,
                            moved |-> moved_nodes]
       \/ /\ current_layout' = "force"
          /\ \E pos \in compute_force_layout(G) :
                LET v == apply_positions(G, [viewer EXCEPT !.positions = pos])
                IN /\ positions' = v.positions
                   /\ node_items' = v.node_items
                   /\ edge_items' = v.edge_items
          /\ last_event' = [op |-> "apply_force_layout", raised |-> FALSE,
                            moved |-> moved_nodes]
    /\ UNCHANGED <<entries, relationships, db_seq, main, rel_dialog, G, root_id,
                   phase>>

\* The main window with its store operations and the map's node clicks.
NextMap ==
    \/ EditFields \/ SelectEntry \/ SaveEntry \/ DeleteEntry \/ RunSearch
    \/ OpenRelationshipEditor \/ OpenMapFromEditor \/ MapClick

SpecMap == InitMap /\ [][NextMap]_vars

\* The map with all its interactions, beside a main window in which the user
\* edits and selects entries.
NextMapView ==
    \/ EditFields \/ SelectEntry \/ OpenRelationshipEditor
    \/ OpenMapFromEditor \/ MapClick \/ MapDrag \/ MapApplyLayout

SpecMapView == InitMap /\ [][NextMapView]_vars

\* ------------------------------------------------- claims on SpecGraph
EntryIds == {entries[i].id : i \in DOMAIN entries}

\* C1: the nodes of build_graph's result are exactly the ids of the input
\* entries, one node per id; every edge joins two nodes and comes from a
\* relationship row; a row with an endpoint that is no entry id gives no edge.
C1_NodesAreEntriesEdgesInside ==
    phase \in {"built", "laid"} =>
        /\ NodeIds(G) = EntryIds
        /\ Len(G.nodes) = Cardinality(EntryIds)
        /\ \A i \in DOMAIN G.edges :
              /\ G.edges[i].src \in NodeIds(G)
              /\ G.edges[i].dst \in NodeIds(G)
              /\ \E j \in DOMAIN relationships :
                    /\ relationships[j].entry_a = G.edges[i].src
                    /\ relationships[j].entry_b = G.edges[i].dst
        /\ \A j \in DOMAIN relationships :
              (relationships[j].entry_a \notin EntryIds
                 \/ relationships[j].entry_b \notin EntryIds)
              => ~ \E i \in DOMAIN G.edges :
                     /\ G.edges[i].src = relationships[j].entry_a
                     /\ G.edges[i].dst = relationships[j].entry_b

\* Entries {1, 2} with the one relationship (1, 3): 2 nodes, 0 edges.
C1_Witness ==
    /\ phase = "built"
    /\ EntryIds = {1, 2}
    /\ Len(relationships) = 1
    /\ relationships[1].entry_a = 1
    /\ relationships[1].entry_b = 3
    /\ Len(G.nodes) = 2
    /\ G.edges = <<>>

\* Two nodes are linked when an edge joins them in either direction.
Linked(g, a, b) ==
    \E i \in DOMAIN g.edges :
        \/ (g.edges[i].src = a /\ g.edges[i].dst = b)
        \/ (g.edges[i].src = b /\ g.edges[i].dst = a)

\* The nodes within k hops of root, edge direction ignored.
RECURSIVE Within(_, _, _)
Within(g, root, k) ==
    IF k = 0 THEN {root}
    ELSE LET W == Within(g, root, k - 1)
         IN W \cup {n \in NodeIds(g) : \E m \in W : Linked(g, m, n)}

Reached(g, root) == Within(g, root, Len(g.nodes))

\* The shortest hop distance of a reached node from root.
Dist(g, root, n) == CHOOSE k \in 0..Len(g.nodes) :
    /\ n \in Within(g, root, k)
    /\ \A j \in 0..(k - 1) : n \notin Within(g, root, j)

MaxReachedDepth(g, root) == Max({Dist(g, root, n) : n \in Reached(g, root)})

\* The nodes not reached from root, in graph node order.
Unreached(g, root) ==
    LET ns == SelectSeq(g.nodes, LAMBDA n : n.id \notin Reached(g, root))
    IN [i \in DOMAIN ns |-> ns[i].id]

\* The depth a node was laid out at: y = depth * vertical_gap.
DepthOf(n) == positions[n][2] \div vertical_gap

\* C4: the k-th node not reached from the root, in graph node order, is laid
\* out at depth (max reached depth + k).
C4_UnreachedGetOwnDepth ==
    phase = "laid" =>
        \A k \in DOMAIN Unreached(G, root_id) :
            LET u == Unreached(G, root_id)[k]
            IN /\ u \in DOMAIN positions
               /\ positions[u][2] = (MaxReachedDepth(G, root_id) + k) * vertical_gap

\* Two nodes are unreached and sit at different depths beyond every reached node.
C4_Witness ==
    /\ phase = "laid"
    /\ Len(Unreached(G, root_id)) >= 2
    /\ DepthOf(Unreached(G, root_id)[1]) = MaxReachedDepth(G, root_id) + 1
    /\ DepthOf(Unreached(G, root_id)[2]) = MaxReachedDepth(G, root_id) + 2

\* C5: every node reached from the root, edge direction ignored, is laid out
\* at a depth equal to its shortest hop distance from the root.
C5_DepthIsHopDistance ==
    phase = "laid" =>
        \A n \in Reached(G, root_id) :
            /\ n \in DOMAIN positions
            /\ positions[n][2] = Dist(G, root_id, n) * vertical_gap

\* A -> B and C -> B rooted at A: C is two hops away against an edge's direction.
C5_Witness ==
    /\ phase = "laid"
    /\ root_id = 1
    /\ Linked(G, 1, 2) /\ Linked(G, 2, 3) /\ ~Linked(G, 1, 3)
    /\ \E i \in DOMAIN G.edges : G.edges[i].src = 3 /\ G.edges[i].dst = 2
    /\ DepthOf(1) = 0 /\ DepthOf(2) = 1 /\ DepthOf(3) = 2

\* The relationship rows whose two endpoints are entries, in table order.
KeptRows ==
    SelectSeq(relationships,
              LAMBDA r : r.entry_a \in EntryIds /\ r.entry_b \in EntryIds)

\* C11: build_graph's result has one edge per relationship row whose two
\* endpoints are nodes: as many edges as there are such rows, and for every
\* such row an edge from its entry_a to its entry_b labelled with the row's
\* type, or "relationship" when the type is empty.
C11_OneEdgePerRow ==
    phase \in {"built", "laid"} =>
        /\ Len(G.edges) = Len(KeptRows)
        /\ \A j \in DOMAIN KeptRows :
              \E i \in DOMAIN G.edges :
                 /\ G.edges[i].src = KeptRows[j].entry_a
                 /\ G.edges[i].dst = KeptRows[j].entry_b
                 /\ G.edges[i].label = IF KeptRows[j].type = "" THEN "relationship"
                                       ELSE KeptRows[j].type

\* The depth compute_tree_layout is to give each node: its hop distance from
\* the root when reached, else the deepest reached depth plus its rank among
\* the unreached nodes.
LayoutDepth(g, root) ==
    LET R == Reached(g, root)
        D == [n \in R |-> Dist(g, root, n)]
        M == Max({D[n] : n \in R})
        U == Unreached(g, root)
    IN [n \in NodeIds(g) |->
          IF n \in R THEN D[n]
          ELSE M + (CHOOSE k \in DOMAIN U : U[k] = n)]

\* C14: compute_tree_layout with a root that is a node returns a mapping whose
\* domain is the node set of the graph; every node, reached or not, gets one
\* point with y = depth * vertical_gap, and no two nodes get the same point.
C14_EveryNodePlacedOnce ==
    phase = "laid" =>
        /\ DOMAIN positions = NodeIds(G)
        /\ LET depth == LayoutDepth(G, root_id)
           IN \A n \in NodeIds(G) :
                 /\ Len(positions[n]) = 2
                 /\ positions[n][2] = depth[n] * vertical_gap
        /\ \A a \in NodeIds(G), b \in NodeIds(G) :
              a # b => positions[a] # positions[b]

\* Three nodes, one of them not reached from the root, all three placed.
C14_Witness ==
    /\ phase = "laid"
    /\ Len(G.nodes) = 3
    /\ Len(Unreached(G, root_id)) = 1
    /\ Cardinality(Reached(G, root_id)) = 2
    /\ DOMAIN positions = NodeIds(G)
    /\ Cardinality({positions[n] : n \in NodeIds(G)}) = 3

\* ------------------------------------------------ claims on SpecLayout
\* The undirected degree of a node: its distinct neighbours, a self-loop
\* counted twice.
UDegree(g, n) ==
    Cardinality({m \in NodeIds(g) \ {n} : Linked(g, n, m)})
    + (IF Linked(g, n, n) THEN 2 ELSE 0)

\* The nodes reached from the root in the order the breadth-first search
\* takes them off its queue.
DiscoveryOrder(g, root) ==
    LET found == bfs(to_undirected(g), <<<<root, 0>>>>, {root}, <<>>).layers
    IN Flatten([i \in DOMAIN found |-> found[i].nodes])

DiscoveredBefore(g, root, a, b) ==
    LET order == DiscoveryOrder(g, root)
    IN \E i \in DOMAIN order, j \in DOMAIN order :
          order[i] = a /\ order[j] = b /\ i < j

\* C15: of two nodes that compute_tree_layout puts at the same depth, the one
\* further left has the greater undirected degree, or the same degree and was
\* discovered earlier by the breadth-first search.
C15_LevelsSortedByDegreeStable ==
    phase = "laid" =>
        \A a \in NodeIds(G), b \in NodeIds(G) :
            (a # b /\ positions[a][2] = positions[b][2]
                   /\ positions[a][1] < positions[b][1]) =>
               \/ UDegree(G, a) > UDegree(G, b)
               \/ /\ UDegree(G, a) = UDegree(G, b)
                  /\ DiscoveredBefore(G, root_id, a, b)

\* Two nodes at one depth: the one discovered later has the greater degree
\* and sits further left.
C15_Witness ==
    /\ phase = "laid"
    /\ \E a \in NodeIds(G), b \in NodeIds(G) :
          /\ positions[a][2] = positions[b][2]
          /\ positions[a][1] < positions[b][1]
          /\ UDegree(G, a) > UDegree(G, b)
          /\ DiscoveredBefore(G, root_id, b, a)

\* ------------------------------------------------ claims on SpecViewer
RootIsNode == root_id # None /\ root_id \in NodeIds(G)

\* The clicked node with the nodes one edge away from it, either direction.
ClickSet(N) ==
    {N} \cup {n \in NodeIds(G) :
                \E i \in DOMAIN G.edges :
                    \/ (G.edges[i].src = N /\ G.edges[i].dst = n)
                    \/ (G.edges[i].dst = N /\ G.edges[i].src = n)}

\* C2: right after a press on node N, a node shape is fully opaque iff its node
\* is N, a successor or a predecessor of N, and dimmed to 0.25 otherwise; an
\* edge shape and its label are fully opaque iff both endpoints are in that
\* set, and dimmed to 0.2 otherwise.
C2_HighlightExactlyNeighbors ==
    (phase = "open" /\ last_event.op \in {"click", "drag"}) =>
        LET S == ClickSet(last_event.node)
        IN /\ \A n \in NodeIds(G) :
                node_items[n].opacity =
                    IF n \in S THEN full_opacity ELSE dim_node_opacity
           /\ \A i \in DOMAIN edge_items :
                LET e == edge_items[i]
                    o == IF e.src \in S /\ e.dst \in S THEN full_opacity
                         ELSE dim_edge_opacity
                IN e.opacity = o /\ e.label_opacity = o

\* A click on a node with a predecessor that is no successor, with a node
\* outside the set, a lit edge and a dimmed edge.
C2_Witness ==
    /\ phase = "open"
    /\ last_event.op = "click"
    /\ \E n \in ClickSet(last_event.node) :
          /\ n # last_event.node
          /\ ~ \E i \in DOMAIN G.edges :
                 G.edges[i].src = last_event.node /\ G.edges[i].dst = n
          /\ node_items[n].opacity = full_opacity
    /\ \E n \in NodeIds(G) : node_items[n].opacity = dim_node_opacity
    /\ \E i \in DOMAIN edge_items : edge_items[i].opacity = full_opacity
    /\ \E i \in DOMAIN edge_items : edge_items[i].label_opacity = dim_edge_opacity

\* C3: in every state of an open viewer each edge shape's path starts at the
\* current center of its source node shape and ends at the current center of
\* its destination node shape.
C3_EdgePathsFollowNodes ==
    phase = "open" =>
        \A i \in DOMAIN edge_items :
            /\ edge_items[i].path.start = node_items[edge_items[i].src].pos
            /\ edge_items[i].path.end = node_items[edge_items[i].dst].pos

\* After a drag that moved a node off its layout point, an edge leaving the
\* node starts at the point it was dragged to.
C3_Witness ==
    /\ phase = "open"
    /\ last_event.op = "drag"
    /\ node_items[last_event.node].pos = last_event.p
    /\ positions[last_event.node] # last_event.p
    /\ \E i \in DOMAIN edge_items :
          /\ edge_items[i].src = last_event.node
          /\ edge_items[i].path.start = last_event.p

\* C8 as stated: in every state of an open viewer the position mapping gives
\* the on-screen center of every node shape.
C8_MappingFollowsDrags ==
    phase = "open" =>
        \A n \in DOMAIN node_items : positions[n] = node_items[n].pos

\* C8 amended: a drag of node n to p moves n's node shape to p and leaves the
\* position mapping as the last layout computed it; a node shape that sat at
\* its mapped position still does after any step that is not a drag of it.
C8_DragLeavesMapping ==
    [][/\ last_event'.op = "drag" =>
            /\ positions' = positions
            /\ node_items'[last_event'.node].pos = last_event'.p
       /\ \A n \in DOMAIN node_items' :
            \/ (last_event'.op = "drag" /\ last_event'.node = n)
            \/ ((n \in DOMAIN node_items => node_items[n].pos = positions[n])
                  => node_items'[n].pos = positions'[n])]_vars

\* A node was dragged to p: its shape is at p, the mapping still holds the
\* layout's point.
C8_Witness ==
    /\ phase = "open"
    /\ last_event.op = "drag"
    /\ node_items[last_event.node].pos = last_event.p
    /\ positions[last_event.node] # last_event.p
    /\ current_layout = "tree"
    /\ positions = compute_tree_layout(G, root_id)

\* C9: when apply_force_layout, or apply_tree_layout with a valid root, has
\* run, the position mapping is the newly computed layout of all nodes, every
\* node shape sits at its mapped position and every edge path runs between the
\* mapped positions of its endpoints.
C9_LayoutSwitchResets ==
    (phase = "open"
       /\ (last_event.op = "apply_force_layout"
             \/ (last_event.op = "apply_tree_layout" /\ RootIsNode))) =>
        /\ DOMAIN positions = NodeIds(G)
        /\ last_event.op = "apply_tree_layout" =>
              (current_layout = "tree" /\ positions = compute_tree_layout(G, root_id))
        /\ last_event.op = "apply_force_layout" =>
              (current_layout = "force" /\ positions \in compute_force_layout(G))
        /\ \A n \in NodeIds(G) : node_items[n].pos = positions[n]
        /\ \A i \in DOMAIN edge_items :
              edge_items[i].path =
                  edge_path(positions[edge_items[i].src], positions[edge_items[i].dst])

\* A tree layout request that found dragged nodes and put them back.
C9_Witness ==
    /\ phase = "open"
    /\ last_event.op = "apply_tree_layout"
    /\ RootIsNode
    /\ last_event.moved # {}
    /\ edge_items # <<>>
    /\ \A n \in NodeIds(G) : node_items[n].pos = positions[n]

\* C10: no handler raises; a viewer whose root is None or no node of the graph
\* is in force layout, also after a Tree Layout request; current_layout is
\* "tree" only if root_id is a node of the graph.
C10_TreeOnlyWithValidRoot ==
    /\ phase # "error"
    /\ phase = "open" =>
          /\ current_layout \in {"tree", "force"}
          /\ current_layout = "tree" => RootIsNode
          /\ ~RootIsNode => current_layout = "force"
          /\ last_event.op = "apply_tree_layout" => ~last_event.raised

\* A Tree Layout request in a viewer whose root entry is not in the graph.
C10_Witness ==
    /\ phase = "open"
    /\ root_id # None
    /\ root_id \notin NodeIds(G)
    /\ last_event.op = "apply_tree_layout"
    /\ current_layout = "force"
    /\ NodeIds(G) # {}

\* C12: in an open viewer there is exactly one node shape per graph node and
\* exactly one edge shape per unordered pair of nodes joined by an edge in
\* either direction; every edge shape joins a pair that is joined in the graph.
C12_OneShapePerNodeAndPair ==
    phase = "open" =>
        /\ DOMAIN node_items = NodeIds(G)
        /\ \A n \in NodeIds(G) : node_items[n].node_id = n
        /\ \A a \in NodeIds(G), b \in NodeIds(G) :
              Linked(G, a, b) =>
                 Cardinality({i \in DOMAIN edge_items :
                     {edge_items[i].src, edge_items[i].dst} = {a, b}}) = 1
        /\ \A i \in DOMAIN edge_items :
              /\ edge_items[i].src \in NodeIds(G)
              /\ edge_items[i].dst \in NodeIds(G)
              /\ Linked(G, edge_items[i].src, edge_items[i].dst)

\* A graph with edges 1 -> 2 and 2 -> 1 and a third node: fewer edge shapes
\* than edges.
C12_Witness ==
    /\ phase = "open"
    /\ last_event.op = "__init__"
    /\ \E i \in DOMAIN G.edges : G.edges[i].src = 1 /\ G.edges[i].dst = 2
    /\ \E i \in DOMAIN G.edges : G.edges[i].src = 2 /\ G.edges[i].dst = 1
    /\ Len(G.nodes) = 3
    /\ Len(edge_items) < Len(G.edges)
    /\ Len(edge_items) >= 2

\* The first relationship row, in table order, that joins entries a and b
\* in either direction.
FirstRowJoining(a, b) ==
    relationships[CHOOSE j \in DOMAIN relationships :
        /\ {relationships[j].entry_a, relationships[j].entry_b} = {a, b}
        /\ \A k \in 1..(j - 1) :
              {relationships[k].entry_a, relationships[k].entry_b} # {a, b}]

\* C13: the edge shape drawn for an unordered pair of entries shows the type
\* label of the first relationship row, in table order, that joins the pair.
C13_FirstRowLabelDrawn ==
    phase = "open" =>
        \A i \in DOMAIN edge_items :
            LET r == FirstRowJoining(edge_items[i].src, edge_items[i].dst)
            IN edge_items[i].label =
                  IF r.type = "" THEN "relationship" ELSE r.type

\* C17: a session leaves Uninitialized only through construction, which ends
\* Interactive with the positions computed for every node and the scene drawn
\* from them; once Interactive it stays so; a click or a drag is handled only
\* when Interactive and leaves the layout strategy alone; a layout switch
\* recomputes the position mapping.
C17_SessionOrder ==
    [][/\ phase = "closed" =>
            /\ phase' = "open"
            /\ last_event'.op = "__init__"
            /\ current_layout' \in {"tree", "force"}
            /\ DOMAIN positions' = NodeIds(G')
            /\ DOMAIN node_items' = NodeIds(G')
            /\ \A n \in NodeIds(G') : node_items'[n].pos = positions'[n]
       /\ phase = "open" => phase' = "open"
       /\ last_event'.op \in {"click", "drag"} =>
            /\ phase = "open"
            /\ DOMAIN node_items = NodeIds(G)
            /\ current_layout' = current_layout
       /\ last_event'.op = "apply_force_layout" =>
            /\ phase = "open"
            /\ current_layout' = "force"
            /\ positions' \in compute_force_layout(G)
       /\ (last_event'.op = "apply_tree_layout" /\ RootIsNode) =>
            /\ phase = "open"
            /\ current_layout' = "tree"
            /\ positions' = compute_tree_layout(G, root_id)]_vars

\* A viewer built in tree layout, switched to force layout, then a node of
\* it dragged: still in force layout.
C17_Witness ==
    /\ phase = "open"
    /\ RootIsNode
    /\ current_layout = "force"
    /\ last_event.op = "drag"
    /\ positions \in compute_force_layout(G)
    /\ Len(G.nodes) >= 2

\* --------------------------------------------------- claims on SpecApp
\* The ids handed out by AUTOINCREMENT whose entry row is gone.
DeletedIds == {e \in 1..db_seq.entries : ~has_entry(entries, e)}

\* C6: once an entry has been deleted from the store, no relationship row has
\* it as entry_a or entry_b.
C6_NoRowReferencesDeletedEntry ==
    phase = "app" =>
        \A i \in DOMAIN relationships :
            /\ relationships[i].entry_a \notin DeletedIds
            /\ relationships[i].entry_b \notin DeletedIds

\* C7: every relationship row that a step creates references, as entry_a and
\* as entry_b, entries that are in the store when it is created.
C7_NewRowsReferenceEntries ==
    [][\A r \in Range(relationships') \ Range(relationships) :
          /\ has_entry(entries', r.entry_a)
          /\ has_entry(entries', r.entry_b)]_vars

\* ----------------------------------------------- claims on SpecMapView
MapOps == {"open_map", "click", "drag", "apply_tree_layout", "apply_force_layout"}

\* C16: opening the relationship map, a layout switch, a drag and a node
\* click with its callback into the main window leave every entry row and
\* every relationship row as they were, and insert none.
C16_MapNeverWritesStore ==
    [][last_event'.op \in MapOps =>
          /\ entries' = entries
          /\ relationships' = relationships
          /\ db_seq' = db_seq]_vars

\* A node click has made another entry current in the main window, whose
\* form showed typed text different from the stored row a step earlier; the
\* store is as it was at the start.
C16_Witness ==
    /\ phase = "app"
    /\ last_event.op = "click"
    /\ main.current_entry_id = last_event.node
    /\ rel_dialog.current_entry_id # last_event.node
    /\ main.fields = fields_of(get_entry(entries, last_event.node))
    /\ main.fields # EmptyFields
    /\ entries = [i \in 1..MaxCreated |-> EntryRow(i)]
    /\ relationships # <<>>

\* --------------------------------------------------- claims on SpecMap
\* C18: when a list selection or a node click makes another entry current
\* while an entry is current and the form fields are not all empty, the store
\* row of the previously current entry holds the form's content afterwards.
C18_EditsSavedBeforeSwitch ==
    [][(/\ last_event'.op \in {"load_entry_details", "click"}
        /\ main.current_entry_id # None
        /\ main'.current_entry_id # main.current_entry_id
        /\ has_entry(entries, main.current_entry_id)
        /\ main.fields # EmptyFields) =>
          /\ has_entry(entries', main.current_entry_id)
          /\ fields_of(get_entry(entries', main.current_entry_id)) = main.fields]_vars

\* C19: whenever a step makes an entry current in the main window, the form
\* fields afterwards hold the content of that entry's row; while an entry
\* stays current the fields change only by typing or reloading its row.
C19_FieldsBelongToCurrent ==
    [][(main'.current_entry_id # None
          /\ main'.current_entry_id # main.current_entry_id) =>
          /\ has_entry(entries', main'.current_entry_id)
          /\ main'.fields = fields_of(get_entry(entries', main'.current_entry_id))]_vars

====
